---- MODULE Spec2Model ----
(***************************************************************************)
(* Prompt interpretation and task decomposition of the coder extension:    *)
(*   NLPProcessor.extractCodeContext   (taskDecomposition/task-decomposition-nlp.ts) *)
(*   PromptProcessor.processPrompt     (taskDecomposition prompt processor) *)
(*   TaskExtractor.extractTasks        (taskDecomposition/task-extraction*.ts) *)
(*                                                                         *)
(* Strings are TLA+ strings; the JavaScript string and array methods the   *)
(* code uses (toLowerCase, includes, indexOf, join, trim, find, filter)    *)
(* are operators that compute what the methods compute.                    *)
(*                                                                         *)
(* Numbers: complexity is a multiple of 0.5 in the code (0.5 per entity).  *)
(* The model keeps every complexity value in units of 1/Scale, so the      *)
(* number 1 of the code is Scale here and 10 is 10 * Scale.                *)
(***************************************************************************)
EXTENDS Integers, Sequences, FiniteSets, TLC

VARIABLES
    prompt,      \* the request text handed to processPrompt
    tokenized,   \* TokenizedPrompt returned by NLPProcessor.analyzePrompt for it
    processed,   \* ProcessedPrompt returned by processPrompt, or NoPrompt
    tasks,       \* Task[] returned by the last extractTasks call, or NoTasks
    created,     \* the tasks array of that call as it was after the pushes,
                 \* before the dependency pass, or NoTasks
    validation,  \* PromptValidationResult of validatePrompt(prompt), or NoValidation
    context,     \* CodeContext returned by a direct extractCodeContext call, or NoContext
    client       \* the BaseAIClient.generateCode call: position, retryCount,
                 \* the outcomes of its POSTs so far, the AIResponse it resolved to

vars == <<prompt, tokenized, processed, tasks, created, validation, context, client>>

-----------------------------------------------------------------------------
(* Bounds of the model *)

MaxTokens == 4    \* tokens of a prompt
MaxTech == 1      \* technology entities of a prompt
MaxNouns == 3     \* noun entities of a prompt
MaxActions == 1   \* verb entities of a prompt
MaxTick == 1      \* clock ticks that fall within one extractTasks run

-----------------------------------------------------------------------------
(* JavaScript values and library methods *)

Undefined == "<undefined>"
NoPrompt == [none |-> "prompt"]
NoTasks == <<[none |-> "tasks"]>>
NoValidation == [none |-> "validation"]
NoContext == [none |-> "context"]
NoResponse == [none |-> "response"]
NotCalled == [pc |-> "idle", retryCount |-> 0, outcomes |-> <<>>, response |-> NoResponse]

Upper == "ABCDEFGHIJKLMNOPQRSTUVWXYZ"
Lower == "abcdefghijklmnopqrstuvwxyz"

CharAt(s, i) == SubSeq(s, i, i)

\* the lower-case letter of every upper-case letter
lowerOf ==
    [c \in {CharAt(Upper, j) : j \in 1..Len(Upper)} |->
        CharAt(Lower, CHOOSE j \in 1..Len(Upper) : CharAt(Upper, j) = c)]

LowerChar(c) == IF c \in DOMAIN lowerOf THEN lowerOf[c] ELSE c

RECURSIVE toLowerCase(_)
toLowerCase(s) ==
    IF Len(s) = 0 THEN ""
    ELSE IF Len(s) = 1 THEN LowerChar(s)
    ELSE LET half == Len(s) \div 2
         IN toLowerCase(SubSeq(s, 1, half)) \o toLowerCase(SubSeq(s, half + 1, Len(s)))

\* String.prototype.indexOf(k, from), 0-based, -1 when k does not occur
indexOf(s, k, from) ==
    LET hits == {i \in from..(Len(s) - Len(k)) : SubSeq(s, i + 1, i + Len(k)) = k}
    IN IF hits = {} THEN -1 ELSE CHOOSE i \in hits : \A j \in hits : i <= j

\* String.prototype.includes
strIncludes(s, k) == indexOf(s, k, 0) # -1

\* String.prototype.substring(a, b), 0-based, b exclusive, for 0 <= a <= b
substring(s, a, b) == SubSeq(s, a + 1, b)

RECURSIVE trim(_)
trim(s) ==
    IF Len(s) = 0 THEN s
    ELSE IF CharAt(s, 1) = " " THEN trim(SubSeq(s, 2, Len(s)))
    ELSE IF CharAt(s, Len(s)) = " " THEN trim(SubSeq(s, 1, Len(s) - 1))
    ELSE s

\* String.prototype.startsWith and endsWith
startsWith(s, k) == Len(k) <= Len(s) /\ SubSeq(s, 1, Len(k)) = k
endsWith(s, k) == Len(k) <= Len(s) /\ SubSeq(s, Len(s) - Len(k) + 1, Len(s)) = k

\* Array.prototype.includes
includes(arr, x) == \E i \in DOMAIN arr : arr[i] = x

\* Array.prototype.map(t => t.toLowerCase())
mapLower(arr) == [i \in DOMAIN arr |-> toLowerCase(arr[i])]

RECURSIVE join(_, _)
join(arr, sep) ==
    IF Len(arr) = 0 THEN ""
    ELSE IF Len(arr) = 1 THEN arr[1]
    ELSE arr[1] \o sep \o join(Tail(arr), sep)

\* The callbacks of find, filter and some are passed as their results: hit[i]
\* is the value of the callback on arr[i].

\* Array.prototype.find: the first element whose callback holds, or undefined
find(arr, hit) ==
    IF \E i \in DOMAIN arr : hit[i]
    THEN arr[CHOOSE i \in DOMAIN arr : hit[i] /\ \A j \in 1..(i - 1) : ~hit[j]]
    ELSE Undefined

\* Array.prototype.filter: the elements whose callback holds, in their order
filter(arr, hit) ==
    LET keep == {i \in DOMAIN arr : hit[i]}
        nth(k) == CHOOSE i \in keep : Cardinality({j \in keep : j <= i}) = k
    IN [k \in 1..Cardinality(keep) |-> arr[nth(k)]]

\* arr.filter(callback).length
count(arr, hit) == Cardinality({i \in DOMAIN arr : hit[i]})

Min(a, b) == IF a < b THEN a ELSE b
Max(a, b) == IF a > b THEN a ELSE b

\* `${v}` in a template literal
Str(v) == IF v = Undefined THEN "undefined" ELSE v

-----------------------------------------------------------------------------
(* NLPProcessor.extractCodeContext *)

languages == <<"javascript", "typescript", "python", "java", "c#", "ruby", "go">>
frameworks == <<"react", "angular", "vue", "express", "django", "spring", "flask">>
platforms == <<"node", "browser", "web", "mobile", "desktop", "server">>
constraintPhrases == <<"must be", "should be", "needs to be", "required to">>

\* extractConstraints with the trim() left out
RECURSIVE extractConstraints_untrimmed(_, _)
extractConstraints_untrimmed(tokens, from) ==
    IF from > Len(constraintPhrases) THEN <<>>
    ELSE LET phrase == constraintPhrases[from]
             index == indexOf(tokens, phrase, 0)
             endIndex == IF index = -1 THEN -1 ELSE indexOf(tokens, ".", index)
             pushed == IF index # -1 /\ endIndex # -1
                       THEN <<substring(tokens, index + Len(phrase), endIndex)>>
                       ELSE <<>>
         IN pushed \o extractConstraints_untrimmed(tokens, from + 1)

\* the constraints pushed by the forEach over constraintPhrases[from..]
RECURSIVE extractConstraints(_, _)
extractConstraints(tokens, from) ==
    IF from > Len(constraintPhrases) THEN <<>>
    ELSE LET phrase == constraintPhrases[from]
             index == indexOf(tokens, phrase, 0)
             endIndex == IF index = -1 THEN -1 ELSE indexOf(tokens, ".", index)
             pushed == IF index # -1 /\ endIndex # -1
                       THEN <<trim(substring(tokens, index + Len(phrase), endIndex))>>
                       ELSE <<>>
         IN pushed \o extractConstraints(tokens, from + 1)

\* extractCodeContext with the platform filter of the dependencies left out
extractCodeContext_platformsKept(tokenizedPrompt) ==
    LET technologies == mapLower(tokenizedPrompt.entities.technologies)
        isLanguage == [i \in DOMAIN languages |->
                          \/ includes(technologies, languages[i])
                          \/ includes(technologies, languages[i] \o "programming")]
        isFramework == [i \in DOMAIN frameworks |-> includes(technologies, frameworks[i])]
        isPlatform == [i \in DOMAIN platforms |-> includes(technologies, platforms[i])]
        notIn(list, techs) == [i \in DOMAIN techs |-> ~includes(list, toLowerCase(techs[i]))]
        notLanguages == filter(tokenizedPrompt.entities.technologies,
                               notIn(languages, tokenizedPrompt.entities.technologies))
        notFrameworks == filter(notLanguages, notIn(frameworks, notLanguages))
        tokens == toLowerCase(join(tokenizedPrompt.tokens, " "))
    IN [language |-> find(languages, isLanguage),
        framework |-> find(frameworks, isFramework),
        platform |-> find(platforms, isPlatform),
        dependencies |-> notFrameworks,
        constraints |-> extractConstraints(tokens, 1)]

extractCodeContext(tokenizedPrompt) ==
    LET technologies == mapLower(tokenizedPrompt.entities.technologies)
        isLanguage == [i \in DOMAIN languages |->
                          \/ includes(technologies, languages[i])
                          \/ includes(technologies, languages[i] \o "programming")]
        isFramework == [i \in DOMAIN frameworks |-> includes(technologies, frameworks[i])]
        isPlatform == [i \in DOMAIN platforms |-> includes(technologies, platforms[i])]
        notIn(list, techs) == [i \in DOMAIN techs |-> ~includes(list, toLowerCase(techs[i]))]
        notLanguages == filter(tokenizedPrompt.entities.technologies,
                               notIn(languages, tokenizedPrompt.entities.technologies))
        notFrameworks == filter(notLanguages, notIn(frameworks, notLanguages))
        notPlatforms == filter(notFrameworks, notIn(platforms, notFrameworks))
        tokens == toLowerCase(join(tokenizedPrompt.tokens, " "))
    IN [language |-> find(languages, isLanguage),
        framework |-> find(frameworks, isFramework),
        platform |-> find(platforms, isPlatform),
        dependencies |-> notPlatforms,
        constraints |-> extractConstraints(tokens, 1)]

-----------------------------------------------------------------------------
(* NLPProcessor.suggestCompletion *)

\* natural.WordTokenizer splits on every run of characters that are not
\* letters, digits or the underscore, and drops the empty pieces
WordChars == Upper \o Lower \o "0123456789_"
isWordChar(c) == strIncludes(WordChars, c)

tokenize(s) ==
    LET word(i) == i \in 1..Len(s) /\ isWordChar(CharAt(s, i))
        starts == {i \in 1..Len(s) : word(i) /\ ~word(i - 1)}
        start(k) == CHOOSE i \in starts : Cardinality({j \in starts : j <= i}) = k
        end(i) == CHOOSE j \in i..Len(s) :
                      /\ ~word(j + 1)
                      /\ \A m \in i..j : word(m)
    IN [k \in 1..Cardinality(starts) |-> SubSeq(s, start(k), end(start(k)))]

commonPhrases == <<"create a function", "implement a class", "generate an interface",
                   "build a component", "develop an API", "write a test">>

\* suggestCompletion without the early return for fewer than 2 tokens
suggestCompletion_noEarlyReturn(partial) ==
    LET matches == filter(commonPhrases,
                          [i \in DOMAIN commonPhrases |-> startsWith(commonPhrases[i], partial)])
    IN SubSeq(matches, 1, Min(5, Len(matches)))

suggestCompletion(partial) ==
    LET tokens == tokenize(partial)
        matches == filter(commonPhrases,
                          [i \in DOMAIN commonPhrases |-> startsWith(commonPhrases[i], partial)])
    IN IF Len(tokens) < 2 THEN <<>>
       ELSE SubSeq(matches, 1, Min(5, Len(matches)))

-----------------------------------------------------------------------------
(* PromptProcessor *)

\* complexity values are kept in units of 1/Scale (the code adds 0.5 per entity)
Scale == 2

complexityKeywords == <<"async", "concurrent", "parallel", "optimize", "secure",
                        "scale", "distributed", "enterprise", "integration">>
urgentKeywords == <<"urgent", "asap", "critical", "important", "priority">>
lowPriorityKeywords == <<"experimental", "optional", "nice to have">>
tokenIndicators == <<"async", "await", "try", "catch", "class", "interface",
                     "extends", "implements", "generic", "template">>

\* Object.values(tokenized.entities).reduce((sum, arr) => sum + arr.length, 0)
entityCount(entities) ==
    Len(entities.technologies) + Len(entities.actions)
    + Len(entities.nouns) + Len(entities.numbers)

\* calculateComplexity with the upper clamp left out
calculateComplexity_noUpperClamp(tok) ==
    LET isKeyword == [i \in DOMAIN tok.tokens |->
                         includes(complexityKeywords, toLowerCase(tok.tokens[i]))]
        complexity == entityCount(tok.entities) * (Scale \div 2)
                      + count(tok.tokens, isKeyword) * 2 * Scale
    IN Max(complexity, 1 * Scale)

\* calculateComplexity with the lower clamp left out
calculateComplexity_noLowerClamp(tok) ==
    LET isKeyword == [i \in DOMAIN tok.tokens |->
                         includes(complexityKeywords, toLowerCase(tok.tokens[i]))]
        complexity == entityCount(tok.entities) * (Scale \div 2)
                      + count(tok.tokens, isKeyword) * 2 * Scale
    IN Min(complexity, 10 * Scale)

\* in units of 1/Scale
calculateComplexity(tok) ==
    LET isKeyword == [i \in DOMAIN tok.tokens |->
                         includes(complexityKeywords, toLowerCase(tok.tokens[i]))]
        complexity == entityCount(tok.entities) * (Scale \div 2)
                      + count(tok.tokens, isKeyword) * 2 * Scale
    IN Min(Max(complexity, 1 * Scale), 10 * Scale)

calculatePriority(tok) ==
    LET isUrgent(token) == includes(urgentKeywords, toLowerCase(token))
        isLow(token) == includes(lowPriorityKeywords, toLowerCase(token))
        base == 5
        raised == IF \E i \in DOMAIN tok.tokens : isUrgent(tok.tokens[i])
                  THEN base + 2 ELSE base
        priority == IF \E i \in DOMAIN tok.tokens : isLow(tok.tokens[i])
                    THEN raised - 2 ELSE raised
    IN Min(Max(priority, 1), 10)

estimateRequiredTokens(tok) ==
    LET baseTokens == 500
        isIndicator == [i \in DOMAIN tok.tokens |->
                           includes(tokenIndicators, toLowerCase(tok.tokens[i]))]
    IN baseTokens
       + entityCount(tok.entities) * 100
       + Len(tok.entities.technologies) * 200
       + count(tok.tokens, isIndicator) * 150

commonLanguages == <<"javascript", "typescript", "python", "java", "c#">>

TooShort == "Prompt is too short. Please provide more details."
VeryLong == "Prompt is very long. Consider breaking it into smaller requests."
NoCodeType == "Consider specifying the type of code you want to generate (function, class, component, etc.)."
NoLanguage == "Consider specifying the programming language."

\* `Did you mean to say "${c}"?`
didYouMean(c) == "Did you mean to say \"" \o c \o "\"?"

\* validatePrompt with <= in place of < in the minimum-length check
validatePrompt_tenIsTooShort(text) ==
    LET lower == toLowerCase(text)
        hasLanguage == \E i \in DOMAIN commonLanguages : strIncludes(lower, commonLanguages[i])
        completions == suggestCompletion(text)
    IN [isValid |-> ~(Len(text) <= 10),
        errors |-> IF Len(text) <= 10 THEN <<TooShort>> ELSE <<>>,
        warnings |-> (IF Len(text) > 1000 THEN <<VeryLong>> ELSE <<>>)
                     \o (IF /\ ~strIncludes(text, "function")
                            /\ ~strIncludes(text, "class")
                            /\ ~strIncludes(text, "component")
                            /\ ~strIncludes(text, "interface")
                         THEN <<NoCodeType>> ELSE <<>>),
        suggestions |-> (IF ~hasLanguage THEN <<NoLanguage>> ELSE <<>>)
                        \o (IF \/ endsWith(text, "...")
                               \/ endsWith(text, "create")
                               \/ endsWith(text, "generate")
                            THEN [i \in DOMAIN completions |-> didYouMean(completions[i])]
                            ELSE <<>>)]

validatePrompt(text) ==
    LET lower == toLowerCase(text)
        hasLanguage == \E i \in DOMAIN commonLanguages : strIncludes(lower, commonLanguages[i])
        completions == suggestCompletion(text)
    IN [isValid |-> ~(Len(text) < 10),
        errors |-> IF Len(text) < 10 THEN <<TooShort>> ELSE <<>>,
        warnings |-> (IF Len(text) > 1000 THEN <<VeryLong>> ELSE <<>>)
                     \o (IF /\ ~strIncludes(text, "function")
                            /\ ~strIncludes(text, "class")
                            /\ ~strIncludes(text, "component")
                            /\ ~strIncludes(text, "interface")
                         THEN <<NoCodeType>> ELSE <<>>),
        suggestions |-> (IF ~hasLanguage THEN <<NoLanguage>> ELSE <<>>)
                        \o (IF \/ endsWith(text, "...")
                               \/ endsWith(text, "create")
                               \/ endsWith(text, "generate")
                            THEN [i \in DOMAIN completions |-> didYouMean(completions[i])]
                            ELSE <<>>)]

processPrompt(text, tok) ==
    [originalPrompt |-> text,
     tokenized |-> tok,
     context |-> extractCodeContext(tok),
     complexity |-> calculateComplexity(tok),
     priority |-> calculatePriority(tok),
     estimatedTokens |-> estimateRequiredTokens(tok)]

-----------------------------------------------------------------------------
(* TaskExtractor: task kinds and the requires* predicates *)

CODE_GENERATION == "code_generation"
DOCUMENTATION == "documentation"
TESTING == "testing"
OPTIMIZATION == "optimization"
SECURITY == "security"
DEPLOYMENT == "deployment"

docKeywords == <<"document", "documentation", "docs", "comment", "api">>
testKeywords == <<"test", "testing", "unit test", "integration test", "e2e">>
optKeywords == <<"optimize", "performance", "efficient", "fast", "scale">>
securityKeywords == <<"secure", "security", "authentication", "authorization", "encrypt">>
deployKeywords == <<"deploy", "deployment", "ci/cd", "pipeline", "release">>
complexityIndicators == <<"class", "interface", "function", "method",
                          "api", "endpoint", "database", "async">>
sensitiveKeywords == <<"user", "password", "auth", "token", "credential",
                       "payment", "credit", "personal", "private", "sensitive">>

\* containsKeywords that compares whole tokens only
containsKeywords_wholeTokens(tok, keywords) ==
    LET tokens == mapLower(tok.tokens)
    IN \E k \in DOMAIN keywords : includes(tokens, toLowerCase(keywords[k]))

containsKeywords(tok, keywords) ==
    LET tokens == mapLower(tok.tokens)
        joined == join(tokens, " ")
    IN \E k \in DOMAIN keywords :
           \/ includes(tokens, toLowerCase(keywords[k]))
           \/ strIncludes(joined, toLowerCase(keywords[k]))

\* isComplexEnough with > in place of >=
isComplexEnough_moreThanTwo(tok) ==
    LET isIndicator == [i \in DOMAIN tok.tokens |->
                           includes(complexityIndicators, toLowerCase(tok.tokens[i]))]
        complexityScore == count(tok.tokens, isIndicator)
    IN complexityScore > 2

\* isComplexEnough with === in place of >=
isComplexEnough_exactlyTwo(tok) ==
    LET isIndicator == [i \in DOMAIN tok.tokens |->
                           includes(complexityIndicators, toLowerCase(tok.tokens[i]))]
        complexityScore == count(tok.tokens, isIndicator)
    IN complexityScore = 2

isComplexEnough(tok) ==
    LET isIndicator == [i \in DOMAIN tok.tokens |->
                           includes(complexityIndicators, toLowerCase(tok.tokens[i]))]
        complexityScore == count(tok.tokens, isIndicator)
    IN complexityScore >= 2

containsSensitiveOperations(tok) == containsKeywords(tok, sensitiveKeywords)

requiresDocumentation(tok) == containsKeywords(tok, docKeywords) \/ isComplexEnough(tok)
requiresTesting(tok) == containsKeywords(tok, testKeywords) \/ isComplexEnough(tok)
requiresOptimization(tok) == containsKeywords(tok, optKeywords)
requiresSecurity(tok) ==
    containsKeywords(tok, securityKeywords) \/ containsSensitiveOperations(tok)
requiresDeployment(tok) == containsKeywords(tok, deployKeywords)

-----------------------------------------------------------------------------
(* TaskExtractor: task creation.  `now` is the sequence of values that the  *)
(* Date.now() calls of one create*Task return, in evaluation order: the id  *)
(* first, then the dependency literals from left to right.                  *)

\* `${prefix}_${Date.now()}`
taskId(prefix, t) == prefix \o "_" \o ToString(t)

securityChecks == <<"input_validation", "authentication", "authorization",
                    "data_sanitization", "encryption">>

\* createCodeGenerationTask that falls back to a default language
createCodeGenerationTask_defaultLanguage(pp, now) ==
    [id |-> taskId("code_gen", now[1]),
     type |-> CODE_GENERATION,
     description |-> "Generate " \o Str(pp.context.language)
                     \o " code based on the prompt: " \o pp.originalPrompt,
     dependencies |-> <<>>,
     estimatedComplexity |-> pp.complexity,
     context |-> [language |-> IF pp.context.language = Undefined
                               THEN "javascript" ELSE pp.context.language,
                  framework |-> pp.context.framework,
                  dependencies |-> pp.context.dependencies]]

createCodeGenerationTask(pp, now) ==
    [id |-> taskId("code_gen", now[1]),
     type |-> CODE_GENERATION,
     description |-> "Generate " \o Str(pp.context.language)
                     \o " code based on the prompt: " \o pp.originalPrompt,
     dependencies |-> <<>>,
     estimatedComplexity |-> pp.complexity,
     context |-> [language |-> pp.context.language,
                  framework |-> pp.context.framework,
                  dependencies |-> pp.context.dependencies]]

createDocumentationTask(pp, now) ==
    [id |-> taskId("docs", now[1]),
     type |-> DOCUMENTATION,
     description |-> "Generate documentation for the generated code",
     dependencies |-> <<taskId("code_gen", now[2])>>,
     estimatedComplexity |-> Max(pp.complexity - 2 * Scale, 1 * Scale),
     context |-> [language |-> pp.context.language,
                  framework |-> pp.context.framework]]

\* createTestingTask with the id prefix of the documentation task
createTestingTask_docsId(pp, now) ==
    [id |-> taskId("docs", now[1]),
     type |-> TESTING,
     description |-> "Generate tests for the generated code",
     dependencies |-> <<taskId("code_gen", now[2])>>,
     estimatedComplexity |-> pp.complexity,
     context |-> [language |-> pp.context.language,
                  framework |-> pp.context.framework]]

createTestingTask(pp, now) ==
    [id |-> taskId("test", now[1]),
     type |-> TESTING,
     description |-> "Generate tests for the generated code",
     dependencies |-> <<taskId("code_gen", now[2])>>,
     estimatedComplexity |-> pp.complexity,
     context |-> [language |-> pp.context.language,
                  framework |-> pp.context.framework]]

createOptimizationTask(pp, now) ==
    [id |-> taskId("opt", now[1]),
     type |-> OPTIMIZATION,
     description |-> "Optimize the generated code for performance",
     dependencies |-> <<taskId("code_gen", now[2]), taskId("test", now[3])>>,
     estimatedComplexity |-> pp.complexity + 1 * Scale,
     context |-> [language |-> pp.context.language,
                  framework |-> pp.context.framework]]

\* createSecurityTask that adds 3 to the request complexity
createSecurityTask_threeMore(pp, now) ==
    [id |-> taskId("security", now[1]),
     type |-> SECURITY,
     description |-> "Implement security measures and validate the generated code",
     dependencies |-> <<taskId("code_gen", now[2]), taskId("opt", now[3])>>,
     estimatedComplexity |-> pp.complexity + 3 * Scale,
     context |-> [language |-> pp.context.language,
                  framework |-> pp.context.framework,
                  securityChecks |-> securityChecks]]

createSecurityTask(pp, now) ==
    [id |-> taskId("security", now[1]),
     type |-> SECURITY,
     description |-> "Implement security measures and validate the generated code",
     dependencies |-> <<taskId("code_gen", now[2]), taskId("opt", now[3])>>,
     estimatedComplexity |-> pp.complexity + 2 * Scale,
     context |-> [language |-> pp.context.language,
                  framework |-> pp.context.framework,
                  securityChecks |-> securityChecks]]

\* createDeploymentTask without the floor of 1
createDeploymentTask_noFloor(pp, now) ==
    [id |-> taskId("deploy", now[1]),
     type |-> DEPLOYMENT,
     description |-> "Prepare deployment configuration and scripts",
     dependencies |-> <<taskId("code_gen", now[2]), taskId("test", now[3]),
                        taskId("security", now[4])>>,
     estimatedComplexity |-> pp.complexity - 1 * Scale,
     context |-> [platform |-> pp.context.platform,
                  framework |-> pp.context.framework]]

createDeploymentTask(pp, now) ==
    [id |-> taskId("deploy", now[1]),
     type |-> DEPLOYMENT,
     description |-> "Prepare deployment configuration and scripts",
     dependencies |-> <<taskId("code_gen", now[2]), taskId("test", now[3]),
                        taskId("security", now[4])>>,
     estimatedComplexity |-> Max(pp.complexity - 1 * Scale, 1 * Scale),
     context |-> [platform |-> pp.context.platform,
                  framework |-> pp.context.framework]]

\* the number of Date.now() calls one create*Task makes
dateNowCalls(type) ==
    CASE type = CODE_GENERATION -> 1
      [] type = DOCUMENTATION -> 2
      [] type = TESTING -> 2
      [] type = OPTIMIZATION -> 3
      [] type = SECURITY -> 3
      [] type = DEPLOYMENT -> 4

createTask(type, pp, now) ==
    CASE type = CODE_GENERATION -> createCodeGenerationTask(pp, now)
      [] type = DOCUMENTATION -> createDocumentationTask(pp, now)
      [] type = TESTING -> createTestingTask(pp, now)
      [] type = OPTIMIZATION -> createOptimizationTask(pp, now)
      [] type = SECURITY -> createSecurityTask(pp, now)
      [] type = DEPLOYMENT -> createDeploymentTask(pp, now)

-----------------------------------------------------------------------------
(* TaskExtractor: dependency wiring *)

\* Array.prototype.find(t => t.type === dependencyType): index of the first, or 0
findByType(allTasks, dependencyType) ==
    IF \E i \in DOMAIN allTasks : allTasks[i].type = dependencyType
    THEN CHOOSE i \in DOMAIN allTasks :
             /\ allTasks[i].type = dependencyType
             /\ \A j \in 1..(i - 1) : allTasks[j].type # dependencyType
    ELSE 0

\* addDependencyIfExists that never appends
addDependencyIfExists_never(task, allTasks, dependencyType) == task

\* addDependencyIfExists with unshift in place of push
addDependencyIfExists_unshift(task, allTasks, dependencyType) ==
    LET d == findByType(allTasks, dependencyType)
    IN IF d # 0 /\ ~includes(task.dependencies, allTasks[d].id)
       THEN [task EXCEPT !.dependencies = <<allTasks[d].id>> \o @]
       ELSE task

\* addDependencyIfExists without the includes() check
addDependencyIfExists_unchecked(task, allTasks, dependencyType) ==
    LET d == findByType(allTasks, dependencyType)
    IN IF d # 0
       THEN [task EXCEPT !.dependencies = Append(@, allTasks[d].id)]
       ELSE task

addDependencyIfExists(task, allTasks, dependencyType) ==
    LET d == findByType(allTasks, dependencyType)
    IN IF d # 0 /\ ~includes(task.dependencies, allTasks[d].id)
       THEN [task EXCEPT !.dependencies = Append(@, allTasks[d].id)]
       ELSE task

\* the switch with a default case that wires the root, so the root names itself
dependencyTypes_defaultRoot(type) ==
    CASE type = DOCUMENTATION -> <<CODE_GENERATION>>
      [] type = TESTING -> <<CODE_GENERATION>>
      [] type = OPTIMIZATION -> <<CODE_GENERATION, TESTING>>
      [] type = SECURITY -> <<CODE_GENERATION, OPTIMIZATION>>
      [] type = DEPLOYMENT -> <<CODE_GENERATION, TESTING, SECURITY>>
      [] OTHER -> <<CODE_GENERATION>>

\* the switch with documentation wired to testing as well
dependencyTypes_documentationAfterTesting(type) ==
    CASE type = DOCUMENTATION -> <<CODE_GENERATION, TESTING>>
      [] type = TESTING -> <<CODE_GENERATION>>
      [] type = OPTIMIZATION -> <<CODE_GENERATION, TESTING>>
      [] type = SECURITY -> <<CODE_GENERATION, OPTIMIZATION>>
      [] type = DEPLOYMENT -> <<CODE_GENERATION, TESTING, SECURITY>>
      [] OTHER -> <<>>

\* the switch with testing wired to optimization as well
dependencyTypes_testingAfterOptimization(type) ==
    CASE type = DOCUMENTATION -> <<CODE_GENERATION>>
      [] type = TESTING -> <<CODE_GENERATION, OPTIMIZATION>>
      [] type = OPTIMIZATION -> <<CODE_GENERATION, TESTING>>
      [] type = SECURITY -> <<CODE_GENERATION, OPTIMIZATION>>
      [] type = DEPLOYMENT -> <<CODE_GENERATION, TESTING, SECURITY>>
      [] OTHER -> <<>>

\* the switch with the security case missing its optimization line
dependencyTypes_securityWithoutOptimization(type) ==
    CASE type = DOCUMENTATION -> <<CODE_GENERATION>>
      [] type = TESTING -> <<CODE_GENERATION>>
      [] type = OPTIMIZATION -> <<CODE_GENERATION, TESTING>>
      [] type = SECURITY -> <<CODE_GENERATION>>
      [] type = DEPLOYMENT -> <<CODE_GENERATION, TESTING, SECURITY>>
      [] OTHER -> <<>>

\* the switch of establishTaskDependencies: the kinds wired for a task kind, in order
dependencyTypes(type) ==
    CASE type = DOCUMENTATION -> <<CODE_GENERATION>>
      [] type = TESTING -> <<CODE_GENERATION>>
      [] type = OPTIMIZATION -> <<CODE_GENERATION, TESTING>>
      [] type = SECURITY -> <<CODE_GENERATION, OPTIMIZATION>>
      [] type = DEPLOYMENT -> <<CODE_GENERATION, TESTING, SECURITY>>
      [] OTHER -> <<>>

RECURSIVE addDependencies(_, _, _)
addDependencies(task, allTasks, types) ==
    IF Len(types) = 0 THEN task
    ELSE addDependencies(addDependencyIfExists(task, allTasks, Head(types)),
                         allTasks, Tail(types))

\* ids and types do not change during the pass, so each task's wiring is
\* independent of the order in which forEach visits the tasks
establishTaskDependencies(allTasks) ==
    [i \in DOMAIN allTasks |->
        addDependencies(allTasks[i], allTasks, dependencyTypes(allTasks[i].type))]

-----------------------------------------------------------------------------
(* TaskExtractor.extractTasks *)

requires(type, tok) ==
    CASE type = CODE_GENERATION -> TRUE
      [] type = DOCUMENTATION -> requiresDocumentation(tok)
      [] type = TESTING -> requiresTesting(tok)
      [] type = OPTIMIZATION -> requiresOptimization(tok)
      [] type = SECURITY -> requiresSecurity(tok)
      [] type = DEPLOYMENT -> requiresDeployment(tok)

\* the order of the pushes in extractTasks
pushOrder == <<CODE_GENERATION, DOCUMENTATION, TESTING, OPTIMIZATION, SECURITY, DEPLOYMENT>>

\* the kinds pushed for a tokenized prompt, in push order
emittedTypes(tok) ==
    LET needed == [i \in DOMAIN pushOrder |-> requires(pushOrder[i], tok)]
    IN filter(pushOrder, needed)

RECURSIVE sumCalls(_)
sumCalls(types) ==
    IF Len(types) = 0 THEN 0 ELSE dateNowCalls(Head(types)) + sumCalls(Tail(types))

\* the tasks array after the pushes of extractTasks, before the dependency pass
createTasks(pp, types, clock) ==
    LET before(k) == sumCalls(SubSeq(types, 1, k - 1))
    IN [k \in DOMAIN types |->
           createTask(types[k], pp,
                      SubSeq(clock, before(k) + 1,
                             before(k) + dateNowCalls(types[k])))]

\* the body of extractTasks once the requires* predicates are evaluated
buildTasks(pp, types, clock) == establishTaskDependencies(createTasks(pp, types, clock))

\* clock: the values of all Date.now() calls of the run, in call order
extractTasks(pp, clock) == buildTasks(pp, emittedTypes(pp.tokenized), clock)

-----------------------------------------------------------------------------
(* Inputs.  analyzePrompt delegates to the natural and compromise libraries; *)
(* its result is an input here: a token sequence and the entity buckets.     *)
(* Only the lengths of the actions, nouns and numbers buckets are read by    *)
(* the code, so their entries are all the same word.                         *)

SeqsUpTo(S, n) == UNION {[1..k -> S] : k \in 0..n}
WordSeqs(n) == {[i \in 1..k |-> "thing"] : k \in 0..n}

\* the prompt-scoring inputs: tokens that move complexity and priority
ScoreVocabulary == {"Async", "urgent", "optional"}
TechVocabulary == {"TypeScript", "Redis"}

ScoreInputs ==
    [tokens : SeqsUpTo(ScoreVocabulary, MaxTokens),
     entities : [technologies : SeqsUpTo(TechVocabulary, MaxTech),
                 actions : WordSeqs(MaxActions),
                 nouns : WordSeqs(MaxNouns),
                 numbers : {<<>>}]]

\* the decomposition inputs: every prompt made of words of TaskPrompt, in their
\* order (each word kept or left out), so that every combination of task
\* kinds is triggered
\*   API       documentation keyword and structural keyword, in upper case;
\*             two of them reach the structural threshold
\*   Test      testing keyword, capitalised
\*   optimize  optimization keyword and complexity keyword
\*   secure    security keyword and complexity keyword
\*   deploy    deployment keyword
TaskPrompt == <<"API", "API", "Test", "optimize", "secure", "deploy">>

SubPrompts(words) ==
    {LET kept(k) == CHOOSE i \in I : Cardinality({j \in I : j <= i}) = k
     IN [k \in 1..Cardinality(I) |-> words[kept(k)]] : I \in SUBSET (DOMAIN words)}

TaskInputs ==
    [tokens : SubPrompts(TaskPrompt),
     entities : [technologies : {<<>>, <<"TypeScript">>},
                 actions : {<<>>},
                 nouns : WordSeqs(MaxNouns),
                 numbers : {<<>>}]]

\* the runs of the clock over n Date.now() calls: Date.now() never decreases
\* within a run, and at most MaxTick ticks fall between the first and last call
\* (p[v] is the first call that sees tick v)
ClockRuns(n) ==
    {[i \in 1..n |-> Cardinality({v \in 1..MaxTick : p[v] <= i})] :
        p \in {q \in [1..MaxTick -> 1..(n + 1)] :
                  \A v \in 1..MaxTick : \A w \in v..MaxTick : q[v] <= q[w]}}

-----------------------------------------------------------------------------
(* The state machine *)

InitWith(inputs) ==
    /\ tokenized \in inputs
    /\ prompt = join(tokenized.tokens, " ")
    /\ processed = NoPrompt
    /\ tasks = NoTasks
    /\ created = NoTasks
    /\ validation = NoValidation
    /\ context = NoContext
    /\ client = NotCalled

\* PromptProcessor.processPrompt(prompt)
ProcessPrompt ==
    /\ processed = NoPrompt
    /\ processed' = processPrompt(prompt, tokenized)
    /\ UNCHANGED <<prompt, tokenized, tasks, created, validation, context, client>>

\* the effect of one TaskExtractor.extractTasks(processed) call
extractTasksCall ==
    /\ LET types == emittedTypes(processed.tokenized)
       IN \E clock \in ClockRuns(sumCalls(types)) :
              /\ created' = createTasks(processed, types, clock)
              /\ tasks' = establishTaskDependencies(created')
    /\ UNCHANGED <<prompt, tokenized, processed, validation, context, client>>

\* the first extractTasks call on the processed prompt
ExtractTasks ==
    /\ processed # NoPrompt
    /\ tasks = NoTasks
    /\ extractTasksCall

\* a further extractTasks call on the same processed prompt: it reads the
\* clock anew and replaces the list the caller holds
ExtractTasksAgain ==
    /\ processed # NoPrompt
    /\ tasks # NoTasks
    /\ extractTasksCall

\* one decomposition: processPrompt, then extractTasks
Init == InitWith(TaskInputs)
Next == ProcessPrompt \/ ExtractTasks
Spec == Init /\ [][Next]_vars

\* the extractor called any number of times on the processed prompt
NextRerun == ProcessPrompt \/ ExtractTasks \/ ExtractTasksAgain
SpecRerun == Init /\ [][NextRerun]_vars

\* the prompt processor alone, over the scoring inputs
InitScore == InitWith(ScoreInputs)
NextScore == ProcessPrompt
SpecScore == InitScore /\ [][NextScore]_vars

-----------------------------------------------------------------------------
(* The request interpreter over prompts that name technologies *)

MaxContextTech == 2   \* technology entities of a prompt, in the context inputs

\* Scenario B of the specification, as WordTokenizer splits it
ScenarioB == <<"Build", "a", "secure", "authenticated", "REST", "API", "in",
               "TypeScript", "with", "Express", "that", "must", "be", "PCI",
               "compliant", "and", "needs", "extensive", "testing">>

\* words that move the priority and the work estimate
\*   Urgent            urgency keyword, capitalised
\*   optional          low-priority keyword
\*   nice, to, have    the words of the low-priority keyword `nice to have`
\*   Class             work-estimate indicator, capitalised
ContextPrompt == <<"Urgent", "optional", "nice", "to", "have", "Class">>

\* technology entities: two languages, a language in its `programming` form,
\* a framework, a platform and a technology in none of the lists
ContextTechnologies ==
    {"Python", "JavaScript", "JavaProgramming", "Express", "node", "Redis"}

ContextInputs ==
    [tokens : SubPrompts(ContextPrompt) \cup {ScenarioB},
     entities : [technologies : SeqsUpTo(ContextTechnologies, MaxContextTech),
                 actions : WordSeqs(MaxActions),
                 nouns : {<<>>},
                 numbers : {<<>>}]]

InitContext == InitWith(ContextInputs)
NextContext == ProcessPrompt
SpecContext == InitContext /\ [][NextContext]_vars

-----------------------------------------------------------------------------
(* The decomposition over prompts whose words trigger kinds by containment *)

\* every prompt made of words of EmitPrompt, in their order
\*   create a simple function   the example request: one structural keyword
\*   Class          second structural keyword, capitalised
\*   documented     contains the documentation keyword document
\*   latest         contains the testing keyword test
\*   authenticated  contains the sensitive keyword auth
EmitPrompt == <<"create", "a", "simple", "function", "Class", "documented",
                "latest", "authenticated">>

EmitInputs ==
    [tokens : SubPrompts(EmitPrompt),
     entities : [technologies : {<<>>, <<"TypeScript">>},
                 actions : {<<>>},
                 nouns : {<<>>},
                 numbers : {<<>>}]]

InitEmit == InitWith(EmitInputs)
NextEmit == ProcessPrompt \/ ExtractTasks
SpecEmit == InitEmit /\ [][NextEmit]_vars

-----------------------------------------------------------------------------
(* extractCodeContext called on an analysis whose tokens include full stops. *)
(* natural.WordTokenizer gives no "." token, so analyzePrompt never produces *)
(* such an analysis; extractCodeContext is public and takes any             *)
(* TokenizedPrompt.                                                          *)

\* every token list made of words of ConstraintPrompt, in their order
ConstraintPrompt == <<"Must", "be", "fast", ".", "should", "be",
                      "needs", "to", "be", "small", ".">>

ConstraintInputs ==
    [tokens : SubPrompts(ConstraintPrompt),
     entities : [technologies : {<<>>},
                 actions : {<<>>},
                 nouns : {<<>>},
                 numbers : {<<>>}]]

\* NLPProcessor.extractCodeContext(tokenized)
ExtractCodeContext ==
    /\ context = NoContext
    /\ context' = extractCodeContext(tokenized)
    /\ UNCHANGED <<prompt, tokenized, processed, tasks, created, validation, client>>

InitConstraint == InitWith(ConstraintInputs)
NextConstraint == ExtractCodeContext
SpecConstraint == InitConstraint /\ [][NextConstraint]_vars

\* the analysis of no prompt, where no prompt is analysed
NoAnalysis == [tokens |-> <<>>,
               entities |-> [technologies |-> <<>>, actions |-> <<>>,
                             nouns |-> <<>>, numbers |-> <<>>]]

-----------------------------------------------------------------------------
(* The decomposition over prompts with many structural and complexity keywords *)

\* every prompt made of words of WidePrompt, in their order
\*   function, Class, async   three structural keywords
\*   async, optimize, secure, scale, distributed
\*                            five complexity keywords: complexity up to 10
\*   optimize, scale          optimization keywords
\*   secure                   security keyword
\*   deploy                   deployment keyword
WidePrompt == <<"function", "Class", "async", "optimize", "secure", "scale",
                "distributed", "deploy">>

WideInputs ==
    [tokens : SubPrompts(WidePrompt),
     entities : [technologies : {<<>>},
                 actions : {<<>>},
                 nouns : {<<>>},
                 numbers : {<<>>}]]

InitWide == InitWith(WideInputs)
NextWide == ProcessPrompt \/ ExtractTasks
SpecWide == InitWide /\ [][NextWide]_vars

-----------------------------------------------------------------------------
(* BaseAIClient.generateCode, with OpenAIClient.parseResponse *)

MAX_RETRIES == 3

\* what the catch block receives: an AxiosError with the HTTP status of its
\* response and its message, or an error without a response (network
\* failure, timeout, or an exception of parseResponse), which has no status
Statuses == {400, 401, 429, 500, 502, 503, 504}
Errors == [status : Statuses, message : {"", "Request failed"}]
          \cup [message : {"", "Network Error"}]

\* error.response?.status === status
statusIs(error, status) == "status" \in DOMAIN error /\ error.status = status

\* shouldRetry with > in place of >=
shouldRetry_oneMore(error, retryCount) ==
    IF retryCount > MAX_RETRIES THEN FALSE
    ELSE \/ statusIs(error, 429)
         \/ statusIs(error, 503)
         \/ statusIs(error, 502)
         \/ statusIs(error, 504)

shouldRetry(error, retryCount) ==
    IF retryCount >= MAX_RETRIES THEN FALSE
    ELSE \/ statusIs(error, 429)
         \/ statusIs(error, 503)
         \/ statusIs(error, 502)
         \/ statusIs(error, 504)

\* the 400 case reads data?.error?.message, absent in the errors drawn here
handleError(error) ==
    "An error occurred while generating code. "
    \o CASE statusIs(error, 401) ->
              "Invalid API key. Please check your authentication settings."
         [] statusIs(error, 429) -> "Rate limit exceeded. Please try again later."
         [] statusIs(error, 400) -> "Bad request: Invalid input"
         [] statusIs(error, 500) -> "Server error. Please try again later."
         [] OTHER -> IF error.message # "" THEN error.message
                     ELSE "Unknown error occurred."

generateSuggestions(code) ==
    (IF strIncludes(code, "TODO")
     THEN <<"Consider implementing TODOs before production use">> ELSE <<>>)
    \o (IF Len(code) > 1000
        THEN <<"Consider breaking down this code into smaller functions or modules">>
        ELSE <<>>)
    \o (IF strIncludes(code, "console.log")
        THEN <<"Remember to remove or replace console.log statements with proper logging">>
        ELSE <<>>)

\* response bodies: no choice, or one choice whose text has no code fence
Bodies == {<<>>, <<" return 1; ">>, <<"// TODO">>}

\* parseResponse for a body without code fences: the completion is all code
parseResponse(choices) ==
    IF Len(choices) = 0
    THEN [code |-> "", error |-> "No completion was generated"]
    ELSE LET completion == trim(choices[1])
         IN [code |-> completion,
             explanation |-> "",
             suggestions |-> generateSuggestions(completion)]

\* generateCode(prompt) is called: retryCount = 0, the POST is sent
GenerateCode ==
    /\ client.pc = "idle"
    /\ client' = [client EXCEPT !.pc = "posting"]
    /\ UNCHANGED <<prompt, tokenized, processed, tasks, created, validation, context>>

\* the POST resolves and parseResponse returns
PostResolves ==
    /\ client.pc = "posting"
    /\ \E choices \in Bodies :
           client' = [client EXCEPT !.pc = "resolved",
                                    !.outcomes = Append(@, [status |-> 200]),
                                    !.response = parseResponse(choices)]
    /\ UNCHANGED <<prompt, tokenized, processed, tasks, created, validation, context>>

\* the try block throws: the catch block either waits to retry or resolves
\* with the error message
PostRejects ==
    /\ client.pc = "posting"
    /\ \E error \in Errors :
           client' = IF shouldRetry(error, client.retryCount)
                     THEN [client EXCEPT !.pc = "delaying",
                                         !.outcomes = Append(@, error)]
                     ELSE [client EXCEPT !.pc = "resolved",
                                         !.outcomes = Append(@, error),
                                         !.response = [code |-> "",
                                                       error |-> handleError(error)]]
    /\ UNCHANGED <<prompt, tokenized, processed, tasks, created, validation, context>>

\* the RETRY_DELAY timer fires: generateCode(prompt, retryCount + 1)
DelayElapses ==
    /\ client.pc = "delaying"
    /\ client' = [client EXCEPT !.pc = "posting", !.retryCount = @ + 1]
    /\ UNCHANGED <<prompt, tokenized, processed, tasks, created, validation, context>>

InitClient ==
    /\ prompt = "create a function"
    /\ tokenized = NoAnalysis
    /\ processed = NoPrompt
    /\ tasks = NoTasks
    /\ created = NoTasks
    /\ validation = NoValidation
    /\ context = NoContext
    /\ client = NotCalled
NextClient == GenerateCode \/ PostResolves \/ PostRejects \/ DelayElapses

\* the axios instance is created with config.timeout, so a POST settles, and
\* the setTimeout of delay() fires
SpecClient ==
    /\ InitClient
    /\ [][NextClient]_vars
    /\ WF_vars(PostResolves \/ PostRejects)
    /\ WF_vars(DelayElapses)

-----------------------------------------------------------------------------
(* Prompt validation *)

MaxSlack == 2   \* how far past the two length limits the padded texts go

\* n copies of the character x
RECURSIVE Pad(_)
Pad(n) ==
    IF n = 0 THEN ""
    ELSE LET half == Pad(n \div 2)
         IN IF n % 2 = 0 THEN half \o half ELSE half \o half \o "x"

PadLengths == (0..(10 + MaxSlack)) \cup ((1000 - MaxSlack)..(1000 + MaxSlack))
Tails == {"", " function", " in Python", "...", "create", "generate", " a class ..."}

\* the prefixes of the phrases of the phrase table
PhrasePrefixes ==
    UNION {{SubSeq(commonPhrases[i], 1, k) : k \in 0..Len(commonPhrases[i])} :
              i \in DOMAIN commonPhrases}

\* padded texts around the two length limits, every prefix of a phrase of the
\* table, and every such prefix left open with an ellipsis
ValidateTexts ==
    {Pad(n) \o tail : n \in PadLengths, tail \in Tails}
    \cup PhrasePrefixes
    \cup {p \o "..." : p \in PhrasePrefixes}

\* PromptProcessor.validatePrompt(prompt)
ValidatePrompt ==
    /\ validation = NoValidation
    /\ validation' = validatePrompt(prompt)
    /\ UNCHANGED <<prompt, tokenized, processed, tasks, created, context, client>>

InitValidate ==
    /\ prompt \in ValidateTexts
    /\ tokenized = NoAnalysis
    /\ processed = NoPrompt
    /\ tasks = NoTasks
    /\ created = NoTasks
    /\ validation = NoValidation
    /\ context = NoContext
    /\ client = NotCalled
NextValidate == ValidatePrompt
SpecValidate == InitValidate /\ [][NextValidate]_vars

-----------------------------------------------------------------------------
(* Properties of the list returned by extractTasks *)

Returned == tasks # NoTasks

TaskIndexes == IF Returned THEN DOMAIN tasks ELSE {}

OfType(type) == {i \in TaskIndexes : tasks[i].type = type}

Emitted(type) == OfType(type) # {}

\* the dependency id d names the task at index j
Names(d, j) == tasks[j].id = d

\* i depends on j: some dependency id of task i names task j
DependsOn == {<<i, j>> \in TaskIndexes \X TaskIndexes :
                 includes(tasks[i].dependencies, tasks[j].id)}

\* the transitive closure of R
RECURSIVE Closure(_)
Closure(R) ==
    LET longer == R \cup UNION {{<<e[1], f[2]>> : f \in {g \in R : g[1] = e[2]}} : e \in R}
    IN IF longer = R THEN R ELSE Closure(longer)

\* i reaches j by following one or more dependency ids
Reaches == Closure(DependsOn)

\* the clock moved between the creation of the root and of task i: the
\* code_gen id written into task i at creation names no task
StaleRootId(i) ==
    /\ tasks[i].type # CODE_GENERATION
    /\ \A j \in TaskIndexes : ~Names(tasks[i].dependencies[1], j)

\* every task of the run was created within one clock tick
OneTick == \A i \in TaskIndexes :
               tasks[i].id \in {taskId(prefix, 0) :
                   prefix \in {"code_gen", "docs", "test", "opt", "security", "deploy"}}

AllSixEmitted == Returned /\ Len(tasks) = Len(pushOrder)

\* C1: every dependency id held by a returned task is the id of a task in the
\* same returned list, whatever the clock returns
C1_DependenciesResolve ==
    Returned =>
        \A i \in TaskIndexes : \A k \in DOMAIN tasks[i].dependencies :
            \E j \in TaskIndexes : Names(tasks[i].dependencies[k], j)

\* C2: the returned list holds exactly one code_generation task and its
\* dependency list is empty
C2_SingleRoot ==
    Returned =>
        /\ Cardinality(OfType(CODE_GENERATION)) = 1
        /\ \A i \in OfType(CODE_GENERATION) : tasks[i].dependencies = <<>>

C2_Witness == AllSixEmitted /\ \E i \in TaskIndexes : StaleRootId(i)

\* a dependency entry for the kind whose ids start with prefix
EntryFor(d, prefix) ==
    Len(d) > Len(prefix) /\ SubSeq(d, 1, Len(prefix) + 1) = prefix \o "_"

\* C3: a kind that is not emitted has no dependency entry: without an
\* optimization task the security task depends on exactly the root id, and
\* without a testing task the optimization and deployment tasks hold no
\* testing entry
C3_NoEntryForMissingKind ==
    Returned =>
        /\ ~Emitted(OPTIMIZATION) =>
               \A i \in OfType(SECURITY) : \A r \in OfType(CODE_GENERATION) :
                   tasks[i].dependencies = <<tasks[r].id>>
        /\ ~Emitted(TESTING) =>
               \A i \in OfType(OPTIMIZATION) \cup OfType(DEPLOYMENT) :
                   \A k \in DOMAIN tasks[i].dependencies :
                       ~EntryFor(tasks[i].dependencies[k], "test")

\* C4: the depends-on relation of the returned tasks is acyclic: no task
\* reaches itself by following dependency ids
C4_Acyclic == Returned => \A i \in TaskIndexes : <<i, i>> \notin Reaches

\* all six kinds, and the deployment task reaches the testing task both
\* directly and through security and optimization
C4_Witness ==
    /\ AllSixEmitted
    /\ \E d \in OfType(DEPLOYMENT), s \in OfType(SECURITY),
          o \in OfType(OPTIMIZATION), t \in OfType(TESTING) :
           {<<d, s>>, <<s, o>>, <<o, t>>, <<d, t>>} \subseteq DependsOn

\* C5: every task that is not the code_generation task reaches the
\* code_generation task by following dependency ids that resolve in the list
C5_RootReachable ==
    Returned =>
        \A i \in TaskIndexes :
            tasks[i].type # CODE_GENERATION =>
                \E r \in OfType(CODE_GENERATION) : <<i, r>> \in Reaches

\* every non-root task was created after the clock moved past the root's tick
C5_Witness ==
    /\ Returned
    /\ Len(tasks) >= 3
    /\ \A i \in TaskIndexes : tasks[i].type # CODE_GENERATION => StaleRootId(i)

\* C6: the ids of the returned tasks are pairwise distinct, also when all
\* tasks are created within one clock tick
C6_DistinctIds ==
    Returned =>
        \A i \in TaskIndexes : \A j \in TaskIndexes :
            i # j => tasks[i].id # tasks[j].id

C6_Witness == AllSixEmitted /\ OneTick

\* the prerequisite kinds prescribed for a kind
Prescribed(type) ==
    CASE type = DOCUMENTATION -> {CODE_GENERATION}
      [] type = TESTING -> {CODE_GENERATION}
      [] type = OPTIMIZATION -> {CODE_GENERATION, TESTING}
      [] type = SECURITY -> {CODE_GENERATION, OPTIMIZATION}
      [] type = DEPLOYMENT -> {CODE_GENERATION, TESTING, SECURITY}
      [] OTHER -> {}

\* C7: a non-root task's dependency list holds the id of the emitted task of
\* each prescribed prerequisite kind and the id of no emitted task of any
\* other kind
C7_PrescribedEdges ==
    Returned =>
        \A i \in TaskIndexes : \A j \in TaskIndexes :
            tasks[i].type # CODE_GENERATION =>
                (includes(tasks[i].dependencies, tasks[j].id)
                    <=> tasks[j].type \in Prescribed(tasks[i].type))

\* all six kinds, and the clock moved between the creation of the security
\* task and of the deployment task: none of the three ids written into the
\* deployment task at creation names a task, the pass appended all three
C7_Witness ==
    /\ AllSixEmitted
    /\ \E i \in OfType(DEPLOYMENT) :
           /\ Len(tasks[i].dependencies) = 2 * Cardinality(Prescribed(DEPLOYMENT))
           /\ \A k \in 1..Cardinality(Prescribed(DEPLOYMENT)) :
                  \A j \in TaskIndexes : ~Names(tasks[i].dependencies[k], j)

\* the kind of the task a dependency id names in the list ts, or "nothing"
KindNamed(ts, d) ==
    IF \E j \in DOMAIN ts : ts[j].id = d
    THEN ts[CHOOSE j \in DOMAIN ts : ts[j].id = d].type
    ELSE "nothing"

\* a returned list with every id replaced by the kind it names
Shape(ts) ==
    [i \in DOMAIN ts |->
        [type |-> ts[i].type,
         estimatedComplexity |-> ts[i].estimatedComplexity,
         dependencies |-> [k \in DOMAIN ts[i].dependencies |->
                              KindNamed(ts, ts[i].dependencies[k])]]]

\* C8: two extractTasks runs on the same processed prompt return the same
\* kinds, the same estimatedComplexity and the same dependency entries by
\* kind, whatever the clock does in either run
C8_SameShape ==
    [][(tasks # NoTasks /\ tasks' # NoTasks) => Shape(tasks) = Shape(tasks')]_vars

\* the complexity prescribed for a kind, for request complexity c (in 1/Scale)
PrescribedComplexity(type, c) ==
    CASE type = CODE_GENERATION -> c
      [] type = DOCUMENTATION -> Max(c - 2 * Scale, 1 * Scale)
      [] type = TESTING -> c
      [] type = OPTIMIZATION -> c + 1 * Scale
      [] type = SECURITY -> c + 2 * Scale
      [] type = DEPLOYMENT -> Max(c - 1 * Scale, 1 * Scale)

\* C9: each task's estimatedComplexity is the value prescribed for its kind
\* from the request complexity
C9_ComplexityPerKind ==
    Returned =>
        \A i \in TaskIndexes :
            tasks[i].estimatedComplexity
                = PrescribedComplexity(tasks[i].type, processed.complexity)

\* all six kinds at a fractional complexity, or documentation and deployment
\* at a complexity where both floors apply
C9_Witness ==
    /\ Returned
    /\ \/ AllSixEmitted /\ processed.complexity % Scale # 0
       \/ /\ Emitted(DOCUMENTATION) /\ Emitted(DEPLOYMENT)
          /\ processed.complexity < 2 * Scale

\* the complexity before the clamp, in 1/Scale
RawComplexity ==
    entityCount(tokenized.entities) * (Scale \div 2)
    + Cardinality({i \in DOMAIN tokenized.tokens :
                      includes(complexityKeywords, toLowerCase(tokenized.tokens[i]))})
      * 2 * Scale

\* C10: the complexity and the priority of every processed prompt are within
\* 1..10
C10_ScoresClamped ==
    processed # NoPrompt =>
        /\ 1 * Scale <= processed.complexity /\ processed.complexity <= 10 * Scale
        /\ 1 <= processed.priority /\ processed.priority <= 10

\* the clamp applies: the raw complexity exceeds 10
C10_Witness == processed # NoPrompt /\ RawComplexity > 10 * Scale

-----------------------------------------------------------------------------
(* Properties of the processed prompt *)

Processed == processed # NoPrompt

\* C11: the request complexity is an integer for any number of entities, odd
\* totals included
C11_IntegerComplexity == Processed => processed.complexity % Scale = 0

\* the request text in lower case, with a space before and after
RequestWords == " " \o toLowerCase(join(tokenized.tokens, " ")) \o " "

\* the request contains one of the keywords, as a word or a sequence of words
RequestHas(keywords) ==
    \E k \in DOMAIN keywords : strIncludes(RequestWords, " " \o keywords[k] \o " ")

\* C12: the priority is 5, plus 2 if the request contains an urgency keyword,
\* minus 2 if it contains a low-priority keyword (`nice to have` among them),
\* clamped to 1..10
C12_PriorityFromKeywords ==
    Processed =>
        processed.priority
            = Min(Max(5 + (IF RequestHas(urgentKeywords) THEN 2 ELSE 0)
                        - (IF RequestHas(lowPriorityKeywords) THEN 2 ELSE 0), 1), 10)

Technologies == tokenized.entities.technologies

\* the first technology entity, in entity order, that is in the list when
\* lower-cased (its lower-case form), or undefined
FirstEntityIn(list) ==
    LET matches == {i \in DOMAIN Technologies : includes(list, toLowerCase(Technologies[i]))}
    IN IF matches = {} THEN Undefined
       ELSE toLowerCase(Technologies[CHOOSE i \in matches : \A j \in matches : i <= j])

\* C13: the detected language, framework and platform are the first
\* technology entity, in entity order, that matches the respective list
C13_FirstInEntityOrder ==
    Processed =>
        /\ processed.context.language = FirstEntityIn(languages)
        /\ processed.context.framework = FirstEntityIn(frameworks)
        /\ processed.context.platform = FirstEntityIn(platforms)

\* the technology entity e was matched as the language, framework or platform
MatchedEntity(e) ==
    \/ toLowerCase(e) = processed.context.language
    \/ toLowerCase(e) = processed.context.language \o "programming"
    \/ toLowerCase(e) = processed.context.framework
    \/ toLowerCase(e) = processed.context.platform

\* C14: no technology entity matched as the language, framework or platform
\* is in the dependencies list
C14_MatchedNotDependency ==
    Processed =>
        \A i \in DOMAIN Technologies :
            MatchedEntity(Technologies[i])
                => ~includes(processed.context.dependencies, Technologies[i])

\* the technology entity is in none of the three lists when lower-cased
Unlisted(e) ==
    /\ ~includes(languages, toLowerCase(e))
    /\ ~includes(frameworks, toLowerCase(e))
    /\ ~includes(platforms, toLowerCase(e))

\* the entities of technologies[from..] that are in none of the lists
RECURSIVE UnlistedFrom(_)
UnlistedFrom(from) ==
    IF from > Len(Technologies) THEN <<>>
    ELSE (IF Unlisted(Technologies[from]) THEN <<Technologies[from]>> ELSE <<>>)
         \o UnlistedFrom(from + 1)

\* C15: the dependencies list is the subsequence of the technology entities,
\* in order and spelling and with repeats, that are in none of the lists
C15_DependenciesSubsequence ==
    Processed => processed.context.dependencies = UnlistedFrom(1)

\* an unlisted entity twice, or an unlisted entity next to a platform entity
C15_Witness ==
    /\ Processed
    /\ Len(Technologies) = 2
    /\ \/ Technologies = <<"Redis", "Redis">>
       \/ /\ \E i \in DOMAIN Technologies : includes(platforms, toLowerCase(Technologies[i]))
          /\ Len(processed.context.dependencies) = 1

\* C16: the Scenario B request, which has `must be` and no `.`, yields at least
\* one constraint
C16_ScenarioBConstraint ==
    (Processed /\ tokenized.tokens = ScenarioB)
        => Len(processed.context.constraints) >= 1

\* the technology entities that are not the detected language, framework or platform
DependencyEntities == {i \in DOMAIN Technologies : ~MatchedEntity(Technologies[i])}

\* the tokens that are complexity-indicator keywords of the work estimate
IndicatorTokens ==
    {i \in DOMAIN tokenized.tokens :
        includes(tokenIndicators, toLowerCase(tokenized.tokens[i]))}

\* C17: the estimated work units are 500 + 100 per entity + 200 per dependency
\* entity + 150 per indicator token
C17_WorkUnits ==
    Processed =>
        processed.estimatedTokens
            = 500 + 100 * entityCount(tokenized.entities)
              + 200 * Cardinality(DependencyEntities)
              + 150 * Cardinality(IndicatorTokens)

-----------------------------------------------------------------------------
(* Which kinds are emitted *)

\* the request text in lower case
RequestText == toLowerCase(join(tokenized.tokens, " "))

\* the request text contains one of the keywords
TextHas(keywords) == \E k \in DOMAIN keywords : strIncludes(RequestText, keywords[k])

DocumentationWords == <<"document", "documentation", "docs", "comment", "api">>
StructuralWords == {"class", "interface", "function", "method",
                    "api", "endpoint", "database", "async"}

\* the tokens that are structural keywords
StructuralTokens ==
    {i \in DOMAIN tokenized.tokens : toLowerCase(tokenized.tokens[i]) \in StructuralWords}

\* C18: a documentation task is emitted exactly when a documentation keyword
\* matches or at least 2 tokens are structural keywords, a testing task
\* exactly when a testing keyword matches or the same threshold holds
C18_DocumentationAndTesting ==
    Returned =>
        /\ Emitted(DOCUMENTATION)
               <=> (TextHas(DocumentationWords) \/ Cardinality(StructuralTokens) >= 2)
        /\ Emitted(TESTING)
               <=> (TextHas(testKeywords) \/ Cardinality(StructuralTokens) >= 2)

\* the threshold alone: two structural tokens, no documentation or testing keyword
C18_Witness ==
    /\ Returned
    /\ Cardinality(StructuralTokens) = 2
    /\ ~TextHas(DocumentationWords) /\ ~TextHas(testKeywords)
    /\ Emitted(DOCUMENTATION) /\ Emitted(TESTING)

SecurityWords == <<"secure", "security", "authentication", "authorization", "encrypt">>
SensitiveWords == <<"user", "password", "auth", "token", "credential",
                    "payment", "credit", "personal", "private", "sensitive">>

\* C19: a security task is emitted exactly when a security keyword or a
\* sensitive-operation keyword matches; a token that contains one, such as
\* authenticated, triggers it
C19_SecurityTrigger ==
    Returned => (Emitted(SECURITY) <=> (TextHas(SecurityWords) \/ TextHas(SensitiveWords)))

C19_Witness ==
    Returned /\ tokenized.tokens = <<"authenticated">> /\ Emitted(SECURITY)

\* no requires* predicate holds for the prompt
NothingRequired ==
    \A type \in {DOCUMENTATION, TESTING, OPTIMIZATION, SECURITY, DEPLOYMENT} :
        ~requires(type, tokenized)

\* C20: with no language or framework detected and no predicate triggered,
\* extractTasks returns exactly one task, of type code_generation, whose
\* context.language and context.framework are undefined
C20_SingleTaskNoMatch ==
    (/\ Returned
     /\ processed.context.language = Undefined
     /\ processed.context.framework = Undefined
     /\ NothingRequired)
        => /\ Len(tasks) = 1
           /\ tasks[1].type = CODE_GENERATION
           /\ tasks[1].context.language = Undefined
           /\ tasks[1].context.framework = Undefined

\* the example request
C20_Witness ==
    /\ Returned
    /\ tokenized.tokens = <<"create", "a", "simple", "function">>
    /\ Technologies = <<>>
    /\ Len(tasks) = 1

-----------------------------------------------------------------------------
(* The empty analysis *)

EmptyAnalysis == tokenized.tokens = <<>> /\ entityCount(tokenized.entities) = 0

\* C21: for an empty analysis (no tokens, the four entity buckets empty) the
\* interpreter yields complexity 1, priority 5, language, framework and
\* platform undefined, and empty dependencies and constraints
C21_EmptyAnalysis ==
    (Processed /\ EmptyAnalysis) =>
        /\ processed.complexity = 1 * Scale
        /\ processed.priority = 5
        /\ processed.context.language = Undefined
        /\ processed.context.framework = Undefined
        /\ processed.context.platform = Undefined
        /\ processed.context.dependencies = <<>>
        /\ processed.context.constraints = <<>>

C21_Witness == Processed /\ EmptyAnalysis /\ processed.originalPrompt = ""

-----------------------------------------------------------------------------
(* Properties of validatePrompt *)

Validated == validation # NoValidation

\* C22: validatePrompt returns isValid = false exactly when the text is shorter
\* than 10 characters, and then errors is non-empty; a text longer than 1000
\* characters gets the length warning and keeps isValid = true and errors empty
C22_LengthRules ==
    Validated =>
        /\ validation.isValid = FALSE <=> Len(prompt) < 10
        /\ validation.isValid = FALSE => validation.errors # <<>>
        /\ Len(prompt) > 1000
               => /\ includes(validation.warnings, VeryLong)
                  /\ validation.isValid = TRUE
                  /\ validation.errors = <<>>

\* a text of 9 characters is rejected with an error
C22_Witness ==
    /\ Validated
    /\ Len(prompt) = 9
    /\ validation.isValid = FALSE
    /\ validation.errors = <<TooShort>>

\* the suggestions that are phrase completions
CompletionSuggestions ==
    {i \in DOMAIN validation.suggestions :
        startsWith(validation.suggestions[i], "Did you mean to say")}

\* the prompt seems incomplete and is a prefix of a phrase of the table
LooksIncomplete ==
    endsWith(prompt, "...") \/ endsWith(prompt, "create") \/ endsWith(prompt, "generate")
PrefixOfPhrase == \E i \in DOMAIN commonPhrases : startsWith(commonPhrases[i], prompt)

\* C29: validatePrompt adds no "Did you mean to say" suggestion for any
\* prompt: a prompt that seems incomplete and is a prefix of a phrase of the
\* table is a single token, for which the completion lookup returns nothing
C29_NoCompletionSuggested ==
    Validated =>
        /\ CompletionSuggestions = {}
        /\ (LooksIncomplete /\ PrefixOfPhrase) => Len(tokenize(prompt)) = 1

C29_Witness ==
    /\ Validated
    /\ prompt = "create"
    /\ LooksIncomplete /\ PrefixOfPhrase
    /\ validation.suggestions = <<NoLanguage>>

-----------------------------------------------------------------------------
(* Constraint extraction *)

TriggerPhrases == <<"must be", "should be", "needs to be", "required to">>

\* 1-based position of the first occurrence of the phrase in the request
\* text, or 0
FirstOccurrence(phrase) ==
    LET at == {p \in 1..(Len(RequestText) - Len(phrase) + 1) :
                  SubSeq(RequestText, p, p + Len(phrase) - 1) = phrase}
    IN IF at = {} THEN 0 ELSE CHOOSE p \in at : \A q \in at : p <= q

\* position of the first full stop at or after position p, or 0
FullStopFrom(p) ==
    LET at == {q \in p..Len(RequestText) : CharAt(RequestText, q) = "."}
    IN IF at = {} THEN 0 ELSE CHOOSE q \in at : \A r \in at : q <= r

\* s without its leading and trailing spaces
Trimmed(s) ==
    LET solid == {i \in 1..Len(s) : CharAt(s, i) # " "}
    IN IF solid = {} THEN ""
       ELSE SubSeq(s, CHOOSE i \in solid : \A j \in solid : i <= j,
                      CHOOSE i \in solid : \A j \in solid : i >= j)

\* what one trigger phrase contributes
Contribution(phrase) ==
    LET first == FirstOccurrence(phrase)
        stop == IF first = 0 THEN 0 ELSE FullStopFrom(first)
    IN IF first = 0 \/ stop = 0 THEN <<>>
       ELSE <<Trimmed(SubSeq(RequestText, first + Len(phrase), stop - 1))>>

ContextExtracted == context # NoContext

\* C23: for each trigger phrase in the order must be, should be, needs to be,
\* required to: if it occurs in the lower-cased joined tokens and a full stop
\* occurs at or after its first occurrence, the trimmed text between the end
\* of the phrase and that full stop is one constraint; otherwise the phrase
\* contributes nothing
C23_ConstraintsPerPhrase ==
    ContextExtracted =>
        context.constraints =
            Contribution(TriggerPhrases[1]) \o Contribution(TriggerPhrases[2])
            \o Contribution(TriggerPhrases[3]) \o Contribution(TriggerPhrases[4])

\* two phrases contribute, in list order
C23_Witness ==
    /\ ContextExtracted
    /\ tokenized.tokens = <<"Must", "be", "fast", ".", "should", "be", "small", ".">>
    /\ context.constraints = <<"fast", "small">>

-----------------------------------------------------------------------------
(* Properties of the dependency pass *)

\* some dependency of the returned list was appended by the pass, next to
\* the literals written at creation
PassAppended ==
    \E i \in TaskIndexes :
        Len(tasks[i].dependencies) > dateNowCalls(tasks[i].type) - 1

\* C24: establishTaskDependencies applied a second time to a list it has
\* already processed leaves every dependency list unchanged
C24_PassIdempotent ==
    Returned =>
        \A i \in TaskIndexes :
            establishTaskDependencies(tasks)[i].dependencies = tasks[i].dependencies

C24_Witness == AllSixEmitted /\ PassAppended

\* a is a prefix of b
IsPrefix(a, b) == Len(a) <= Len(b) /\ SubSeq(b, 1, Len(a)) = a

\* the pass changed nothing of the task but appended to its dependencies
OnlyAppended(old, new) ==
    /\ new.id = old.id
    /\ new.type = old.type
    /\ new.description = old.description
    /\ new.estimatedComplexity = old.estimatedComplexity
    /\ new.context = old.context
    /\ IsPrefix(old.dependencies, new.dependencies)

\* no wiring of the pass is left to do in the list
PassFinished(list) ==
    \A i \in DOMAIN list : \A j \in DOMAIN list :
        (/\ list[j].type \in Prescribed(list[i].type)
         /\ \A k \in 1..(j - 1) : list[k].type # list[j].type)
            => includes(list[i].dependencies, list[j].id)

\* C25: the dependency pass changes nothing but dependency lists, and only by
\* appending: every returned task has the id, type, description,
\* estimatedComplexity and context it had before the pass, the dependency
\* list before the pass is a prefix of the one after it, and the pass has
\* finished for every task of the returned list
C25_PassOnlyAppends ==
    Returned =>
        /\ Len(tasks) = Len(created)
        /\ \A i \in TaskIndexes : OnlyAppended(created[i], tasks[i])
        /\ PassFinished(tasks)

\* the pass appended to the deployment task, after its three literals
C25_Witness ==
    /\ Returned
    /\ \E i \in OfType(DEPLOYMENT) : Len(tasks[i].dependencies) > 3

KindOrder == <<CODE_GENERATION, DOCUMENTATION, TESTING, OPTIMIZATION, SECURITY, DEPLOYMENT>>
Rank(type) == CHOOSE k \in DOMAIN KindOrder : KindOrder[k] = type

\* C26: the returned list is in a valid execution order: the tasks appear in
\* the kind order code_generation, documentation, testing, optimization,
\* security, deployment with at most one task per kind (at most 6 tasks), and
\* every dependency id that names a task of the list names one at a strictly
\* earlier position
C26_ExecutionOrder ==
    Returned =>
        /\ Len(tasks) <= 6
        /\ \A i \in TaskIndexes : \A j \in TaskIndexes :
               i < j => Rank(tasks[i].type) < Rank(tasks[j].type)
        /\ \A i \in TaskIndexes : \A j \in TaskIndexes :
               includes(tasks[i].dependencies, tasks[j].id) => j < i

\* all six kinds, and every task after the root names an earlier task
C26_Witness ==
    /\ AllSixEmitted
    /\ \A i \in TaskIndexes \ {1} :
           \E j \in 1..(i - 1) : includes(tasks[i].dependencies, tasks[j].id)

-----------------------------------------------------------------------------
(* Emission and complexity over longer prompts *)

\* the analysis of the first k tokens of the prompt
FirstTokens(k) == [tokenized EXCEPT !.tokens = SubSeq(@, 1, k)]

\* the kinds of a list of kinds
Kinds(types) == {types[n] : n \in DOMAIN types}

\* C27: emission is monotone in the tokens: every kind emitted for a token
\* sequence T is emitted for T followed by further tokens
C27_EmissionMonotone ==
    Returned =>
        \A k \in 0..(Len(tokenized.tokens) - 1) :
            Kinds(emittedTypes(FirstTokens(k))) \subseteq {tasks[i].type : i \in TaskIndexes}

\* the third structural keyword follows a prefix that already had two
C27_Witness ==
    /\ Returned
    /\ tokenized.tokens = <<"function", "Class", "async">>
    /\ emittedTypes(FirstTokens(2)) = <<CODE_GENERATION, DOCUMENTATION, TESTING>>
    /\ Emitted(DOCUMENTATION) /\ Emitted(TESTING)

\* C30: task complexity is not clamped again: for a request complexity in
\* [1,10] every returned task has 1 <= estimatedComplexity <= 12, only
\* optimization tasks (up to 11) and security tasks (up to 12) are above 10
C30_TaskComplexityRange ==
    (/\ Returned
     /\ processed.complexity >= 1 * Scale
     /\ processed.complexity <= 10 * Scale)
        => \A i \in TaskIndexes :
               /\ tasks[i].estimatedComplexity >= 1 * Scale
               /\ tasks[i].estimatedComplexity <= 12 * Scale
               /\ tasks[i].estimatedComplexity > 10 * Scale
                      => tasks[i].type \in {OPTIMIZATION, SECURITY}
               /\ tasks[i].type = OPTIMIZATION
                      => tasks[i].estimatedComplexity <= 11 * Scale

\* request complexity 10: optimization at 11, security at 12, deployment at 8
C30_Witness ==
    /\ Returned
    /\ processed.complexity = 10 * Scale
    /\ \E i \in OfType(OPTIMIZATION) : tasks[i].estimatedComplexity = 11 * Scale
    /\ \E i \in OfType(SECURITY) : tasks[i].estimatedComplexity = 12 * Scale

-----------------------------------------------------------------------------
(* Properties of generateCode *)

Retryable == {429, 502, 503, 504}
Resolved == client.pc = "resolved"
Failed(outcome) == ~("status" \in DOMAIN outcome /\ outcome.status = 200)
RetryableFailure(outcome) == "status" \in DOMAIN outcome /\ outcome.status \in Retryable
FinalFailure == Resolved /\ Failed(client.outcomes[Len(client.outcomes)])

GenerateCodeBounded ==
    /\ Len(client.outcomes) <= 4
    /\ \A k \in 1..(Len(client.outcomes) - 1) : RetryableFailure(client.outcomes[k])
    /\ FinalFailure => client.response.code = "" /\ Len(client.response.error) > 0

\* C28: generateCode terminates for every sequence of request outcomes: at
\* most MAX_RETRIES + 1 = 4 POST attempts are made, a further attempt is made
\* only after a failure with status 429, 502, 503 or 504, and the call always
\* resolves, on final failure with code '' and a non-empty error
C28_GenerateCodeTerminates ==
    /\ []GenerateCodeBounded
    /\ (client.pc # "idle") ~> Resolved

\* the fourth POST fails with a retryable status and the call resolves
C28_Witness ==
    /\ FinalFailure
    /\ Len(client.outcomes) = 4
    /\ RetryableFailure(client.outcomes[4])
    /\ client.response.code = ""

====
